---- MODULE Spec2Model ----
(***************************************************************************)
(* Model of the catalog client's two pages:                                *)
(*   - CreateArtifact.jsx: the artifact draft, the modelRequired effect,   *)
(*     the submit gate, the FormData assembly and the upload response;     *)
(*   - Login.jsx: the credential POST and the post-login redirect.         *)
(* JavaScript values are written as strings; a path is the sequence of its *)
(* tokens ("/" and the segment names), so that String.includes is a real   *)
(* sub-sequence test.                                                      *)
(***************************************************************************)
EXTENDS Integers, Sequences, FiniteSets, TLC

VARIABLES
    newObjectAttributes,  \* CreateArtifact: the draft (useState, lines 35-51)
    modelRequired,        \* CreateArtifact: useState(false), line 63
    loading,              \* CreateArtifact: useState(true), line 53
    errors,               \* CreateArtifact: useState(false), line 54
    shapeOptions,         \* CreateArtifact: useState([]), line 58
    cultureOptions,       \* CreateArtifact: useState([]), line 59
    tagOptions,           \* CreateArtifact: useState([]), line 60
    metadataFetch,        \* the metadata GET: "pending" or "settled"
    uploads,              \* bodies of the upload POSTs still in flight
    unhandledRejections,  \* promise rejections no handler caught
    mounted,              \* the page component is mounted
    locationFrom,         \* location.state?.from of the mounted page
    alerts,               \* messages handed to addAlert, oldest first
    navigations,          \* calls of navigate(to, options), oldest first
    formValues,           \* Login: useState({username, password}), line 25
    token,                \* useToken: the stored token (empty until set)
    authFetch             \* number of credential POSTs in flight

vars == <<newObjectAttributes, modelRequired, loading, errors, shapeOptions,
          cultureOptions, tagOptions, metadataFetch, uploads,
          unhandledRejections, mounted, locationFrom, alerts, navigations,
          formValues, token, authFetch>>

createVars == <<newObjectAttributes, modelRequired, loading, errors,
                shapeOptions, cultureOptions, tagOptions, metadataFetch,
                uploads>>

loginVars == <<formValues, token, authFetch>>

----------------------------------------------------------------------------
(* Bounds *)

MaxImages == 2
MaxTags == 2
MaxAlerts == 2
MaxUploads == 2
MaxNavigations == 2

----------------------------------------------------------------------------
(* JavaScript values *)

Undefined == "undefined"

\* the {} a file slot holds before a file is picked
EmptyObject == "{}"

ModelSlots == {"object", "texture", "material"}

\* the File a slot's picker hands over (one per slot, by allowed file type)
PickedFile(name) ==
    CASE name = "object" -> "pot.obj"
      [] name = "texture" -> "pot.jpg"
      [] name = "material" -> "pot.mtl"
      [] name = "thumbnail" -> "thumb.png"

ImageFiles == {"imgA", "imgB"}

Files == {PickedFile(n) : n \in ModelSlots \cup {"thumbnail"}} \cup ImageFiles

\* v instanceof File
IsFile(v) == v \in Files

\* the unselected shape / culture of the initial draft
NoOption == [id |-> "", value |-> ""]

\* what the metadata endpoint returns: { id, value } entries
ServerShapes == {[id |-> "1", value |-> "bowl"]}
ServerCultures == {[id |-> "2", value |-> "diaguita"]}
ServerTags == {[id |-> "3", value |-> "ceramic"], [id |-> "4", value |-> "painted"]}

Descriptions == {"", "A pot"}

\* sequences over S of length at most n
BoundedSeq(S, n) == UNION {[1..k -> S] : k \in 0..n}

\* sequences over S without repetition, of length at most n
DistinctSeq(S, n) ==
    {s \in BoundedSeq(S, n) : \A i, j \in 1..Len(s) : i # j => s[i] # s[j]}

----------------------------------------------------------------------------
(* Paths and navigation targets *)

Root == <<"/">>
CatalogHome == <<"/", "catalog">>
ResetPasswordSegment == <<"/", "reset-password">>
PasswordRecoverySegment == <<"/", "password-recovery">>

\* s.includes(sub)
Includes(s, sub) ==
    \E i \in 0..(Len(s) - Len(sub)) : SubSeq(s, i + 1, i + Len(sub)) = sub

JsUndefined == [type |-> "undefined"]
JsString(path) == [type |-> "string", str |-> path]
JsLocation(pathname) == [type |-> "location", pathname |-> pathname]

\* !!v
Truthy(v) ==
    CASE v.type = "undefined" -> FALSE
      [] v.type = "string" -> v.str # <<>>
      [] OTHER -> TRUE

\* the path the router ends at for navigate(to)
DestinationPath(to) ==
    CASE to.type = "string" -> to.str
      [] to.type = "location" -> to.pathname
      [] OTHER -> <<Undefined>>

Navigate(log, to, replace) == Append(log, [to |-> to, replace |-> replace])

----------------------------------------------------------------------------
(* Messages handed to addAlert *)

IncompleteModelSetMsg ==
    "Para subir un objeto 3d, se deben subir los tres archivos requeridos"
NoAssetProvidedMsg == "Si no se sube un modelo 3d, se deben subir imagenes"
CreatedMsg == "Objeto creado con exito"
AuthFailedMsg == "Ha ocurrido un error durante la autenticacion"
ServerDetail == "detail: rejected by the server"
JsonErrorMsg == "Unexpected token < in JSON at position 0"

AddAlert(log, msg) == Append(log, msg)

----------------------------------------------------------------------------
(* CreateArtifact: draft and the modelRequired effect *)

InitialAttributes ==
    [object |-> EmptyObject, texture |-> EmptyObject, material |-> EmptyObject,
     thumbnail |-> EmptyObject, images |-> <<>>, description |-> "",
     shape |-> NoOption, culture |-> NoOption, tags |-> <<>>]

\* the effect, had it left the material slot out of its test
RecomputeRequirement_IgnoresMaterial(a) ==
    IsFile(a.object) \/ IsFile(a.texture)

\* body of the effect: the value handed to setModelRequired
RecomputeRequirement(a) ==
    IsFile(a.object) \/ IsFile(a.texture) \/ IsFile(a.material)

\* the effect's dependency array
EffectDeps(a) == <<a.object, a.texture, a.material>>

\* the flag, had no effect recomputed it after a draft update
ModelRequiredEffect_Stale(prev, next, flag) == flag

\* modelRequired once the render that follows a state update has committed
\* and its effects have run: the effect runs only when a dependency changed
ModelRequiredEffect(prev, next, flag) ==
    IF EffectDeps(prev) # EffectDeps(next)
    THEN RecomputeRequirement(next)
    ELSE flag

\* commit of a new draft: setNewObjectAttributes, re-render, effects
SetNewObjectAttributes(next) ==
    /\ newObjectAttributes' = next
    /\ modelRequired' = ModelRequiredEffect(newObjectAttributes, next, modelRequired)

\* the file lists the multiple picker hands over: distinct files, in
\* selection order
ImageLists == DistinctSeq(ImageFiles, MaxImages)

\* values a file slot's UploadButton hands to the setter
SlotValues(name) == {EmptyObject, PickedFile(name)}

\* UploadButton name=object|texture|material|thumbnail
UploadFile(name, v) ==
    /\ mounted
    /\ v \in SlotValues(name)
    /\ SetNewObjectAttributes([newObjectAttributes EXCEPT ![name] = v])
    /\ UNCHANGED <<loading, errors, shapeOptions, cultureOptions, tagOptions,
                   metadataFetch, uploads, unhandledRejections, mounted,
                   locationFrom, alerts, navigations, loginVars>>

\* UploadButton name=images isMultiple
UploadImages(imgs) ==
    /\ mounted
    /\ imgs \in ImageLists
    /\ SetNewObjectAttributes([newObjectAttributes EXCEPT !.images = imgs])
    /\ UNCHANGED <<loading, errors, shapeOptions, cultureOptions, tagOptions,
                   metadataFetch, uploads, unhandledRejections, mounted,
                   locationFrom, alerts, navigations, loginVars>>

\* values the input widgets hand to handleInputChange
InputValues(name) ==
    CASE name = "description" -> Descriptions
      [] name = "shape" -> shapeOptions
      [] name = "culture" -> cultureOptions
      [] name = "tags" -> DistinctSeq(tagOptions, MaxTags)

InputNames == {"description", "shape", "culture", "tags"}

HandleInputChange(name, value) ==
    /\ mounted
    /\ name \in InputNames
    /\ name # "description" => ~(loading \/ errors)
    /\ value \in InputValues(name)
    /\ SetNewObjectAttributes([newObjectAttributes EXCEPT ![name] = value])
    /\ UNCHANGED <<loading, errors, shapeOptions, cultureOptions, tagOptions,
                   metadataFetch, uploads, unhandledRejections, mounted,
                   locationFrom, alerts, navigations, loginVars>>

----------------------------------------------------------------------------
(* CreateArtifact: metadata fetch *)

MetadataOutcomes == {"ok", "rejected", "unparsable", "network"}

MetadataResolved(outcome) ==
    /\ metadataFetch = "pending"
    /\ outcome \in MetadataOutcomes
    /\ metadataFetch' = "settled"
    /\ CASE outcome = "ok" ->
              /\ shapeOptions' = ServerShapes
              /\ cultureOptions' = ServerCultures
              /\ tagOptions' = ServerTags
              /\ loading' = FALSE
              /\ UNCHANGED <<errors, alerts, unhandledRejections>>
         [] outcome \in {"rejected", "unparsable"} ->
              /\ Len(alerts) < MaxAlerts
              /\ errors' = TRUE
              /\ alerts' = AddAlert(alerts, IF outcome = "rejected"
                                            THEN ServerDetail ELSE JsonErrorMsg)
              /\ loading' = FALSE
              /\ UNCHANGED <<shapeOptions, cultureOptions, tagOptions,
                             unhandledRejections>>
         [] outcome = "network" ->
              /\ unhandledRejections' = TRUE
              /\ UNCHANGED <<shapeOptions, cultureOptions, tagOptions, loading,
                             errors, alerts>>
    /\ UNCHANGED <<newObjectAttributes, modelRequired, uploads, mounted,
                   locationFrom, navigations, loginVars>>

----------------------------------------------------------------------------
(* CreateArtifact: handleSubmit *)

\* String(v) of a value that is not a File
JsToString(v) == IF v = EmptyObject THEN "[object Object]" ELSE v

\* FormData, had it stored every value as a file
FormValue_AlwaysFile(v) == [kind |-> "file", content |-> v]

\* the entry value FormData stores: a File stays a file, anything else is
\* converted to its string
FormValue(v) ==
    IF IsFile(v)
    THEN [kind |-> "file", content |-> v]
    ELSE [kind |-> "text", content |-> JsToString(v)]

\* formData.append(name, v)
FormDataAppend(fd, name, v) == Append(fd, [name |-> name, value |-> FormValue(v)])

\* items.forEach((item) => formData.append(name, item))
RECURSIVE AppendEach(_, _, _)
AppendEach(fd, name, items) ==
    IF items = <<>>
    THEN fd
    ELSE AppendEach(FormDataAppend(fd, name, Head(items)), name, Tail(items))

\* tags.forEach((tag) => formData.append("id_tags", tag.id))
TagIds(tags) == [i \in 1..Len(tags) |-> tags[i].id]

\* the assembly, had it appended the thumbnail after the images
BuildFormData_ThumbnailAfterImages(a) ==
    LET f1 == FormDataAppend(<<>>, "model[new_object]", a.object)
        f2 == FormDataAppend(f1, "model[new_texture]", a.texture)
        f3 == FormDataAppend(f2, "model[new_material]", a.material)
        f4 == AppendEach(f3, "new_images", a.images)
        f5 == FormDataAppend(f4, "new_thumbnail", a.thumbnail)
        f6 == FormDataAppend(f5, "description", a.description)
        f7 == FormDataAppend(f6, "id_shape", a.shape.id)
        f8 == FormDataAppend(f7, "id_culture", a.culture.id)
    IN  AppendEach(f8, "id_tags", TagIds(a.tags))

\* lines 130-143
BuildFormData(a) ==
    LET f1 == FormDataAppend(<<>>, "model[new_object]", a.object)
        f2 == FormDataAppend(f1, "model[new_texture]", a.texture)
        f3 == FormDataAppend(f2, "model[new_material]", a.material)
        f4 == FormDataAppend(f3, "new_thumbnail", a.thumbnail)
        f5 == AppendEach(f4, "new_images", a.images)
        f6 == FormDataAppend(f5, "description", a.description)
        f7 == FormDataAppend(f6, "id_shape", a.shape.id)
        f8 == FormDataAppend(f7, "id_culture", a.culture.id)
    IN  AppendEach(f8, "id_tags", TagIds(a.tags))

\* the inner if, had it joined its three tests with && instead of ||
MissingModelFile_AllMissing(a) ==
    /\ ~IsFile(a.object)
    /\ ~IsFile(a.texture)
    /\ ~IsFile(a.material)

\* the condition of the inner if, lines 117-121
MissingModelFile(a) ==
    \/ ~IsFile(a.object)
    \/ ~IsFile(a.texture)
    \/ ~IsFile(a.material)

\* the gate, had it left out the else-if on the images
GateAlert_NoImageCheck(a, required) ==
    IF required /\ MissingModelFile(a) THEN IncompleteModelSetMsg ELSE ""

\* the gate, had it asked for images in both branches
GateAlert_ImagesAlways(a, required) ==
    IF required /\ MissingModelFile(a)
    THEN IncompleteModelSetMsg
    ELSE IF Len(a.images) = 0 THEN NoAssetProvidedMsg ELSE ""

\* the alert the gate of lines 116-128 returns with, or "" when it passes
GateAlert(a, required) ==
    IF required
    THEN IF MissingModelFile(a) THEN IncompleteModelSetMsg ELSE ""
    ELSE IF Len(a.images) = 0 THEN NoAssetProvidedMsg ELSE ""

\* handleSubmit up to the await: gate, assembly, fetch
HandleSubmit ==
    /\ mounted
    /\ LET msg == GateAlert(newObjectAttributes, modelRequired)
       IN  IF msg # ""
           THEN /\ Len(alerts) < MaxAlerts
                /\ alerts' = AddAlert(alerts, msg)
                /\ UNCHANGED uploads
           ELSE /\ Len(uploads) < MaxUploads
                /\ uploads' = Append(uploads, BuildFormData(newObjectAttributes))
                /\ UNCHANGED alerts
    /\ UNCHANGED <<newObjectAttributes, modelRequired, loading, errors,
                   shapeOptions, cultureOptions, tagOptions, metadataFetch,
                   unhandledRejections, mounted, locationFrom, navigations,
                   loginVars>>

\* s without its i-th element
RemoveAt(s, i) == SubSeq(s, 1, i - 1) \o SubSeq(s, i + 1, Len(s))

UploadOutcomes == {"ok", "rejected", "unparsable", "network"}

\* ids the server gives a new artifact
NewArtifactIds == {"42"}

\* the success handler, had it gone back to the catalog list
DetailRoute_CatalogHome(newArtifactId) == JsString(CatalogHome)

\* `/catalog/${newArtifactId}`
DetailRoute(newArtifactId) == JsString(CatalogHome \o <<"/", newArtifactId>>)

\* the rest of handleSubmit: the i-th request in flight settles
UploadResolved(i, outcome, newArtifactId) ==
    /\ i \in 1..Len(uploads)
    /\ outcome \in UploadOutcomes
    /\ newArtifactId \in NewArtifactIds
    /\ uploads' = RemoveAt(uploads, i)
    /\ CASE outcome = "ok" ->
              /\ Len(alerts) < MaxAlerts
              /\ Len(navigations) < MaxNavigations
              /\ alerts' = AddAlert(alerts, CreatedMsg)
              /\ navigations' =
                    Navigate(navigations, DetailRoute(newArtifactId), FALSE)
              /\ mounted' = FALSE
              /\ UNCHANGED unhandledRejections
         [] outcome \in {"rejected", "unparsable"} ->
              /\ Len(alerts) < MaxAlerts
              /\ alerts' = AddAlert(alerts, IF outcome = "rejected"
                                            THEN ServerDetail ELSE JsonErrorMsg)
              /\ UNCHANGED <<navigations, mounted, unhandledRejections>>
         [] outcome = "network" ->
              /\ unhandledRejections' = TRUE
              /\ UNCHANGED <<alerts, navigations, mounted>>
    /\ UNCHANGED <<newObjectAttributes, modelRequired, loading, errors,
                   shapeOptions, cultureOptions, tagOptions, metadataFetch,
                   locationFrom, loginVars>>

HandleCancel ==
    /\ mounted
    /\ Len(navigations) < MaxNavigations
    /\ LET goBack == Truthy(locationFrom)
           from == IF goBack THEN locationFrom ELSE JsString(CatalogHome)
       IN  navigations' = Navigate(navigations, from, goBack)
    /\ mounted' = FALSE
    /\ UNCHANGED <<createVars, unhandledRejections, locationFrom, alerts,
                   loginVars>>

----------------------------------------------------------------------------
(* CreateArtifact: specifications *)

\* origins a visitor of the create page can come from
CreateOrigins == {JsUndefined, JsLocation(CatalogHome)}

InitialLogin ==
    /\ formValues = [username |-> "", password |-> ""]
    /\ token = <<>>
    /\ authFetch = 0

\* the page right after mount: empty draft, metadata GET in flight
Init ==
    /\ newObjectAttributes = InitialAttributes
    /\ modelRequired = FALSE
    /\ loading = TRUE
    /\ errors = FALSE
    /\ shapeOptions = {}
    /\ cultureOptions = {}
    /\ tagOptions = {}
    /\ metadataFetch = "pending"
    /\ uploads = <<>>
    /\ unhandledRejections = FALSE
    /\ mounted = TRUE
    /\ locationFrom \in CreateOrigins
    /\ alerts = <<>>
    /\ navigations = <<>>
    /\ InitialLogin

\* draft editing: every edit event of the form, and the metadata response
Next ==
    \/ \E name \in ModelSlots \cup {"thumbnail"} :
          \E v \in SlotValues(name) : UploadFile(name, v)
    \/ \E imgs \in ImageLists : UploadImages(imgs)
    \/ \E name \in InputNames :
          \E value \in InputValues(name) : HandleInputChange(name, value)
    \/ \E outcome \in MetadataOutcomes : MetadataResolved(outcome)

Spec == Init /\ [][Next]_vars

\* the drafts the edit events can build once the metadata has loaded
AllDrafts ==
    [object : SlotValues("object"), texture : SlotValues("texture"),
     material : SlotValues("material"), thumbnail : SlotValues("thumbnail"),
     images : ImageLists, description : Descriptions,
     shape : {NoOption} \cup ServerShapes,
     culture : {NoOption} \cup ServerCultures,
     tags : DistinctSeq(ServerTags, MaxTags)]

\* the form with the metadata loaded, holding any draft, the flag as the
\* effect leaves it
SubmitInit ==
    /\ newObjectAttributes \in AllDrafts
    /\ modelRequired = RecomputeRequirement(newObjectAttributes)
    /\ loading = FALSE
    /\ errors = FALSE
    /\ shapeOptions = ServerShapes
    /\ cultureOptions = ServerCultures
    /\ tagOptions = ServerTags
    /\ metadataFetch = "settled"
    /\ uploads = <<>>
    /\ unhandledRejections = FALSE
    /\ mounted = TRUE
    /\ locationFrom \in CreateOrigins
    /\ alerts = <<>>
    /\ navigations = <<>>
    /\ InitialLogin

\* submission of a draft: the submit event, the upload response, cancel
SubmitNext ==
    \/ HandleSubmit
    \/ \E i \in 1..Len(uploads) : \E outcome \in UploadOutcomes :
          \E id \in NewArtifactIds : UploadResolved(i, outcome, id)
    \/ HandleCancel

SubmitSpec == SubmitInit /\ [][SubmitNext]_vars

\* the form holding a draft with its metadata filled in: only the assets vary
UploadInit ==
    /\ SubmitInit
    /\ newObjectAttributes.thumbnail = EmptyObject
    /\ newObjectAttributes.description = "A pot"
    /\ newObjectAttributes.shape \in ServerShapes
    /\ newObjectAttributes.culture \in ServerCultures
    /\ newObjectAttributes.tags = <<>>

\* the life of the upload requests of such a draft
UploadSpec == UploadInit /\ [][SubmitNext]_vars

\* the create page right after mount, reached directly (no origin recorded)
AssetInit ==
    /\ Init
    /\ locationFrom = JsUndefined

\* a session on the assets: the model slots and the images are edited and
\* the draft is submitted, in any order, from the mount on
AssetNext ==
    \/ \E name \in ModelSlots : \E v \in SlotValues(name) : UploadFile(name, v)
    \/ \E imgs \in ImageLists : UploadImages(imgs)
    \/ HandleSubmit

AssetSpec == AssetInit /\ [][AssetNext]_vars

----------------------------------------------------------------------------
(* Login *)

MaxAuthRequests == 2

Usernames == {"", "ana"}
Passwords == {"", "secret"}

\* tokens the auth endpoint returns, as character sequences; the second one
\* arrives wrapped in double quotes
Quote == "\""
ServerTokens == {<<"t", "k">>, <<Quote, "t", "k", Quote>>}

\* the replace, had its pattern lacked the g flag: only the first quote goes
StripQuotes_FirstOnly(t) ==
    IF \E i \in 1..Len(t) : t[i] = Quote
    THEN LET first == CHOOSE i \in 1..Len(t) :
                         /\ t[i] = Quote
                         /\ \A j \in 1..(i - 1) : t[j] # Quote
         IN  SubSeq(t, 1, first - 1) \o SubSeq(t, first + 1, Len(t))
    ELSE t

\* token.replace(/"/g, "")
StripQuotes(t) == SelectSeq(t, LAMBDA c : c # Quote)

\* handleChange: form onChange
HandleChange(name, value) ==
    /\ mounted
    /\ name \in {"username", "password"}
    /\ value \in (IF name = "username" THEN Usernames ELSE Passwords)
    /\ formValues' = [formValues EXCEPT ![name] = value]
    /\ UNCHANGED <<createVars, unhandledRejections, mounted, locationFrom,
                   alerts, navigations, token, authFetch>>

\* Login handleSubmit up to the await: the credential POST leaves
LoginHandleSubmit ==
    /\ mounted
    /\ authFetch < MaxAuthRequests
    /\ authFetch' = authFetch + 1
    /\ UNCHANGED <<createVars, unhandledRejections, mounted, locationFrom,
                   alerts, navigations, formValues, token>>

\* String(from.pathname)
PathnameString(from) ==
    IF from.type = "location" THEN from.pathname ELSE <<Undefined>>

\* the redirect, had it pushed the origin instead of replacing the entry
ResolveDestination_NoReplace(stateFrom) ==
    LET from == IF Truthy(stateFrom) THEN stateFrom ELSE JsString(Root)
    IN  IF from # JsString(Root)
           /\ Includes(PathnameString(from), ResetPasswordSegment)
        THEN [to |-> JsString(Root), replace |-> FALSE]
        ELSE [to |-> from, replace |-> FALSE]

\* lines 82-88: the navigate call of a successful login, as <<to, replace>>
ResolveDestination(stateFrom) ==
    LET from == IF Truthy(stateFrom) THEN stateFrom ELSE JsString(Root)
    IN  IF from # JsString(Root)
           /\ Includes(PathnameString(from), ResetPasswordSegment)
        THEN [to |-> JsString(Root), replace |-> FALSE]
        ELSE [to |-> from, replace |-> TRUE]

AuthOutcomes == {"ok", "rejected", "unparsable", "network"}

\* the failure paths, had both surfaced the generic message
AuthAlert_Generic(outcome) == AuthFailedMsg

\* the message of a failed attempt: data.detail of a non-success response
\* (line 74), the generic message from the catch block (line 91)
AuthAlert(outcome) ==
    IF outcome = "rejected" THEN ServerDetail ELSE AuthFailedMsg

\* the rest of Login handleSubmit: one credential POST settles
AuthResolved(outcome, serverToken) ==
    /\ authFetch > 0
    /\ outcome \in AuthOutcomes
    /\ serverToken \in ServerTokens
    /\ authFetch' = authFetch - 1
    /\ CASE outcome = "ok" ->
              /\ Len(navigations) < MaxNavigations
              /\ token' = StripQuotes(serverToken)
              /\ LET nav == ResolveDestination(locationFrom)
                 IN  navigations' = Navigate(navigations, nav.to, nav.replace)
              /\ UNCHANGED alerts
         [] outcome \in {"rejected", "unparsable", "network"} ->
              /\ Len(alerts) < MaxAlerts
              /\ alerts' = AddAlert(alerts, AuthAlert(outcome))
              /\ UNCHANGED <<token, navigations>>
    /\ UNCHANGED <<createVars, unhandledRejections, mounted, locationFrom,
                   formValues>>

\* the "Recuperar Contrasena" link
GoToPasswordRecovery ==
    /\ mounted
    /\ Len(navigations) < MaxNavigations
    /\ navigations' = Navigate(navigations, JsString(PasswordRecoverySegment), FALSE)
    /\ mounted' = FALSE
    /\ UNCHANGED <<createVars, unhandledRejections, locationFrom, alerts,
                   formValues, token, authFetch>>

\* the places a visitor was sent to the login page from
LoginOrigins ==
    {JsUndefined,
     JsLocation(<<"/", "catalog", "/", "42">>),
     JsLocation(<<"/", "reset-password", "/", "abc">>),
     JsLocation(PasswordRecoverySegment)}

LoginInit ==
    /\ newObjectAttributes = InitialAttributes
    /\ modelRequired = FALSE
    /\ loading = TRUE
    /\ errors = FALSE
    /\ shapeOptions = {}
    /\ cultureOptions = {}
    /\ tagOptions = {}
    /\ metadataFetch = "pending"
    /\ uploads = <<>>
    /\ unhandledRejections = FALSE
    /\ mounted = TRUE
    /\ locationFrom \in LoginOrigins
    /\ alerts = <<>>
    /\ navigations = <<>>
    /\ InitialLogin

LoginNext ==
    \/ \E name \in {"username", "password"} :
          \E value \in Usernames \cup Passwords : HandleChange(name, value)
    \/ LoginHandleSubmit
    \/ \E outcome \in AuthOutcomes :
          \E serverToken \in ServerTokens : AuthResolved(outcome, serverToken)
    \/ GoToPasswordRecovery

LoginSpec == LoginInit /\ [][LoginNext]_vars

----------------------------------------------------------------------------
(* Properties of the create-artifact form *)

\* a slot holds a real file, not the {} placeholder
Populated(a, slot) == a[slot] # EmptyObject

\* the request the last fetch call sent
LastUpload(log) == log[Len(log)]

\* the entries of a multipart body that carry the given field name
EntriesNamed(body, name) == SelectSeq(body, LAMBDA e : e.name = name)

\* C1: in every reachable state of the form, modelRequired is true exactly
\* when at least one of the object, texture and material slots holds a real
\* file; no event can see the flag disagree with the slots.
C1_ModelRequiredTracksSlots ==
    modelRequired <=> (\E slot \in ModelSlots : Populated(newObjectAttributes, slot))

\* the material slot alone was populated after the description was typed
C1_Witness ==
    /\ modelRequired
    /\ Populated(newObjectAttributes, "material")
    /\ ~Populated(newObjectAttributes, "object")
    /\ ~Populated(newObjectAttributes, "texture")
    /\ newObjectAttributes.description # ""

\* C2: a submit with modelRequired true and a model slot that is not a real
\* file is rejected with the IncompleteModelSet message: no upload request is
\* sent and the draft stays as it was.
C2_IncompleteModelSetRejected ==
    [][(/\ HandleSubmit
        /\ modelRequired
        /\ \E slot \in ModelSlots : ~Populated(newObjectAttributes, slot))
       => /\ alerts' = Append(alerts, IncompleteModelSetMsg)
          /\ uploads' = uploads
          /\ newObjectAttributes' = newObjectAttributes]_vars

\* two of the three model files present, the submit answered by the message
C2_Witness ==
    /\ modelRequired
    /\ Cardinality({slot \in ModelSlots : Populated(newObjectAttributes, slot)}) = 2
    /\ alerts = <<IncompleteModelSetMsg>>
    /\ uploads = <<>>

\* C3: a submit with modelRequired false and no image is rejected with the
\* NoAssetProvided message: no upload request is sent and the draft stays as
\* it was.
C3_NoAssetProvidedRejected ==
    [][(/\ HandleSubmit
        /\ ~modelRequired
        /\ newObjectAttributes.images = <<>>)
       => /\ alerts' = Append(alerts, NoAssetProvidedMsg)
          /\ uploads' = uploads
          /\ newObjectAttributes' = newObjectAttributes]_vars

\* no model file, no image, the submit answered by the message
C3_Witness ==
    /\ ~modelRequired
    /\ newObjectAttributes.images = <<>>
    /\ newObjectAttributes.description # ""
    /\ alerts = <<NoAssetProvidedMsg>>
    /\ uploads = <<>>

\* a draft with all three model files, no image, and description, shape and
\* culture filled in
CompleteModelNoImages(a) ==
    /\ \A slot \in ModelSlots : Populated(a, slot)
    /\ a.images = <<>>
    /\ a.description # ""
    /\ a.shape.id # ""
    /\ a.culture.id # ""

\* C4: a draft with the three model files, zero images, a description, a
\* shape and a culture passes the gate: its submit raises no alert and
\* issues exactly one upload request.
C4_CompleteModelAccepted ==
    [][(HandleSubmit /\ CompleteModelNoImages(newObjectAttributes))
       => /\ alerts' = alerts
          /\ Len(uploads') = Len(uploads) + 1]_vars

\* such a draft was submitted: its request is in flight, without any
\* new_images entry, and nothing was alerted
C4_Witness ==
    /\ CompleteModelNoImages(newObjectAttributes)
    /\ alerts = <<>>
    /\ Len(uploads) = 1
    /\ EntriesNamed(uploads[1], "new_images") = <<>>
    /\ uploads[1][1].value.kind = "file"

\* a required text field of the draft is missing
MissingRequiredField(a) ==
    \/ a.description = ""
    \/ a.shape.id = ""
    \/ a.culture.id = ""

SlotEntry(name, v) ==
    [name |-> name,
     value |-> IF v = EmptyObject
               THEN [kind |-> "text", content |-> "[object Object]"]
               ELSE [kind |-> "file", content |-> v]]

TextEntry(name, text) == [name |-> name, value |-> [kind |-> "text", content |-> text]]

\* the body the payload contract prescribes for a draft: four slot entries,
\* the images, description, id_shape, id_culture, the tag ids
ExpectedBody(a) ==
    LET n == Len(a.images)
        m == Len(a.tags)
    IN  [k \in 1..(7 + n + m) |->
            CASE k = 1 -> SlotEntry("model[new_object]", a.object)
              [] k = 2 -> SlotEntry("model[new_texture]", a.texture)
              [] k = 3 -> SlotEntry("model[new_material]", a.material)
              [] k = 4 -> SlotEntry("new_thumbnail", a.thumbnail)
              [] k > 4 /\ k <= 4 + n ->
                    [name |-> "new_images",
                     value |-> [kind |-> "file", content |-> a.images[k - 4]]]
              [] k = 5 + n -> TextEntry("description", a.description)
              [] k = 6 + n -> TextEntry("id_shape", a.shape.id)
              [] k = 7 + n -> TextEntry("id_culture", a.culture.id)
              [] OTHER -> TextEntry("id_tags", a.tags[k - 7 - n].id)]

\* C6: every upload request carries, for the draft it was built from, the
\* entries model[new_object], model[new_texture], model[new_material],
\* new_thumbnail, one new_images per image in draft order, description,
\* id_shape, id_culture and one id_tags per tag in selection order, in this
\* order; the slot entries are there even for an empty slot.
C6_PayloadLayout ==
    [][Len(uploads') > Len(uploads)
       => LastUpload(uploads') = ExpectedBody(newObjectAttributes)]_vars

\* a request built from two images and two tags, its thumbnail slot empty
C6_Witness ==
    \E i \in 1..Len(uploads) :
        /\ Len(uploads[i]) = 11
        /\ Len(EntriesNamed(uploads[i], "new_images")) = 2
        /\ Len(EntriesNamed(uploads[i], "id_tags")) = 2
        /\ uploads[i][4] = TextEntry("new_thumbnail", "[object Object]")
        /\ uploads[i][5].value.content # uploads[i][6].value.content

\* the draft of the end-to-end scenario: one image, no model file
OneImageNoModel(a) ==
    /\ a.images = <<"imgA">>
    /\ \A slot \in ModelSlots : ~Populated(a, slot)
    /\ a.description = "A pot"
    /\ a.shape.id # ""
    /\ a.culture.id # ""

\* the new_images entries are exactly imgA, and model[new_object] carries
\* no file
OneImagePayload(body) ==
    /\ EntriesNamed(body, "new_images") =
          <<[name |-> "new_images", value |-> [kind |-> "file", content |-> "imgA"]]>>
    /\ Len(EntriesNamed(body, "model[new_object]")) = 1
    /\ EntriesNamed(body, "model[new_object]")[1].value.kind # "file"

\* C7: the draft with images = [imgA], no model file, description "A pot", a
\* shape and a culture passes the gate, and its payload has exactly one
\* new_images entry, imgA, and a model[new_object] entry without file content.
C7_OneImageEndToEnd ==
    [][(HandleSubmit /\ OneImageNoModel(newObjectAttributes))
       => /\ alerts' = alerts
          /\ Len(uploads') = Len(uploads) + 1
          /\ OneImagePayload(LastUpload(uploads'))]_vars

\* the scenario's request is in flight
C7_Witness ==
    /\ OneImageNoModel(newObjectAttributes)
    /\ alerts = <<>>
    /\ Len(uploads) = 1
    /\ OneImagePayload(uploads[1])

----------------------------------------------------------------------------
(* Properties of the login redirect *)

\* a credential POST is answered with success in this step
AuthSucceeds == \E serverToken \in ServerTokens : AuthResolved("ok", serverToken)

\* the path the last navigate call leads to
LastDestination(log) == DestinationPath(log[Len(log)].to)

\* the recorded origin is a location whose pathname contains the segment
OriginContains(segment) ==
    /\ locationFrom.type = "location"
    /\ Includes(locationFrom.pathname, segment)

\* C8: after a successful authentication with no origin recorded, the
\* navigation target is the catalog home route /catalog, not the login
\* route /.
C8_NoOriginGoesToCatalogHome ==
    [][(AuthSucceeds /\ locationFrom = JsUndefined)
       => LastDestination(navigations') = CatalogHome]_vars

\* C9: after a successful authentication whose recorded origin has a
\* pathname containing /reset-password, the navigation target is home
\* (/catalog) and never the recorded path.
C9_ResetPasswordOriginGoesHome ==
    [][(AuthSucceeds /\ OriginContains(ResetPasswordSegment))
       => /\ LastDestination(navigations') = CatalogHome
          /\ LastDestination(navigations') # locationFrom.pathname]_vars

\* C10: whatever origin was recorded, the navigation target of a successful
\* authentication is never a path containing /password-recovery or
\* /reset-password.
C10_NeverBackIntoRecoveryFlow ==
    [][AuthSucceeds
       => /\ ~Includes(LastDestination(navigations'), PasswordRecoverySegment)
          /\ ~Includes(LastDestination(navigations'), ResetPasswordSegment)]_vars

\* the last call of navigate
LastNavigation(log) == log[Len(log)]

\* C11: after a successful authentication whose recorded origin is outside
\* the password-recovery flow, the navigation target is exactly that origin
\* and the navigation replaces the current history entry.
C11_OriginRestoredWithReplace ==
    [][(/\ AuthSucceeds
        /\ locationFrom.type = "location"
        /\ ~OriginContains(ResetPasswordSegment)
        /\ ~OriginContains(PasswordRecoverySegment))
       => LastNavigation(navigations') = [to |-> locationFrom, replace |-> TRUE]]_vars

\* the visitor came from /catalog/42, logged in and was sent back there
C11_Witness ==
    /\ locationFrom = JsLocation(<<"/", "catalog", "/", "42">>)
    /\ token # <<>>
    /\ navigations = <<[to |-> locationFrom, replace |-> TRUE]>>

\* a credential POST is answered with a non-success response in this step
AuthRejected == \E serverToken \in ServerTokens : AuthResolved("rejected", serverToken)

\* C12: a non-success response to the credential POST surfaces the server's
\* detail message as it is, keeps username and password, sets no token and
\* navigates nowhere.
C12_RejectedLoginKeepsForm ==
    [][AuthRejected
       => /\ alerts' = Append(alerts, ServerDetail)
          /\ formValues' = formValues
          /\ token' = token
          /\ navigations' = navigations]_vars

\* a filled-in form was rejected: the detail is shown, the fields are kept
C12_Witness ==
    /\ formValues = [username |-> "ana", password |-> "secret"]
    /\ alerts = <<ServerDetail>>
    /\ authFetch = 0
    /\ token = <<>>
    /\ navigations = <<>>

\* C13: an upload response leads to a navigation exactly when it is a
\* success, and then to /catalog/<id> with the id of the response; a server
\* rejection surfaces the detail message as it is, navigates nowhere, sends
\* no new request and leaves the draft as it was.
C13_UploadOutcomeDecidesNavigation ==
    [][\A i \in 1..Len(uploads) : \A outcome \in UploadOutcomes \ {"network"} :
         \A id \in NewArtifactIds :
            UploadResolved(i, outcome, id)
            => /\ (navigations' # navigations) <=> (outcome = "ok")
               /\ outcome = "ok"
                  => /\ Len(navigations') = Len(navigations) + 1
                     /\ LastDestination(navigations') = <<"/", "catalog", "/", id>>
               /\ outcome = "rejected"
                  => /\ alerts' = Append(alerts, ServerDetail)
                     /\ Len(uploads') = Len(uploads) - 1
                     /\ newObjectAttributes' = newObjectAttributes]_vars

\* one upload was rejected and the draft is still there; another succeeded
\* and led to the detail view of artifact 42
C13_Witness ==
    /\ alerts = <<ServerDetail, CreatedMsg>>
    /\ Len(navigations) = 1
    /\ LastDestination(navigations) = <<"/", "catalog", "/", "42">>
    /\ newObjectAttributes.images # <<>>
    /\ uploads = <<>>

\* the network call of an upload fails in this step
UploadTransportFailure ==
    \E i \in 1..Len(uploads) : \E id \in NewArtifactIds :
        UploadResolved(i, "network", id)

\* C14: a transport failure of the upload (as of the credential POST) is
\* caught in the submitting handler: a failure message is surfaced, nothing
\* propagates out of the handler and the draft is kept.
C14_TransportFailureCaught ==
    [][UploadTransportFailure
       => /\ Len(alerts') = Len(alerts) + 1
          /\ unhandledRejections' = unhandledRejections
          /\ newObjectAttributes' = newObjectAttributes]_vars

\* C15: submission is not re-entrant: at most one upload request is
\* outstanding in every reachable state.
C15_AtMostOneUploadOutstanding == Len(uploads) <= 1

\* C16: once the form has been left, a late response is discarded: it raises
\* no alert and triggers no navigation.
C16_LateResponseDiscarded ==
    [][~mounted => (alerts' = alerts /\ navigations' = navigations)]_vars

\* a credential POST settles in this step, with the given outcome
AuthSettles(outcome) == \E serverToken \in ServerTokens : AuthResolved(outcome, serverToken)

\* C17: each successful authentication response produces exactly one
\* navigation, a failed or errored attempt produces none, and with no usable
\* origin recorded the navigation ends at home (/catalog).
C17_OneRedirectPerSuccess ==
    [][/\ AuthSettles("ok") => Len(navigations') = Len(navigations) + 1
       /\ \A outcome \in AuthOutcomes \ {"ok"} :
             AuthSettles(outcome) => navigations' = navigations
       /\ (AuthSettles("ok") /\ ~Truthy(locationFrom))
             => LastDestination(navigations') = CatalogHome]_vars

\* C18: a successful login stores the token with every double quote removed
\* and navigates with the token set; no login navigation leaves the token
\* unset.
C18_TokenSetBeforeRedirect ==
    [][\A serverToken \in ServerTokens :
         AuthResolved("ok", serverToken)
         => /\ Len(navigations') = Len(navigations) + 1
            /\ token' # <<>>
            /\ \A k \in 1..Len(token') : token'[k] # Quote
            /\ Len(token') =
                  Cardinality({k \in 1..Len(serverToken) : serverToken[k] # Quote})
            /\ \A k \in 1..Len(token') : \E j \in 1..Len(serverToken) :
                  token'[k] = serverToken[j]]_vars

\* logged in and redirected, the stored token free of quotes
C18_Witness ==
    /\ token = <<"t", "k">>
    /\ Len(navigations) = 1
    /\ navigations[1].replace
    /\ authFetch = 0

\* the model entries of a body that carry a file
ModelFilesIn(body) ==
    {name \in {"model[new_object]", "model[new_texture]", "model[new_material]"} :
        \E k \in 1..Len(body) : body[k].name = name /\ body[k].value.kind = "file"}

\* all three model files, or none of them together with an image
CompleteAssets(body) ==
    \/ Cardinality(ModelFilesIn(body)) = 3
    \/ /\ Cardinality(ModelFilesIn(body)) = 0
       /\ Len(EntriesNamed(body, "new_images")) >= 1

\* C19: whatever edits and submits came before, every upload request sent
\* carries all three model files, or no model file and at least one image;
\* a partial model set is never sent.
C19_NoPartialModelSent ==
    \A i \in 1..Len(uploads) : CompleteAssets(uploads[i])

\* a request without model files is in flight, another with the full model
\* followed it, and the draft has since been edited down to a partial model
C19_Witness ==
    /\ Len(uploads) = 2
    /\ Cardinality(ModelFilesIn(uploads[1])) = 0
    /\ Cardinality(ModelFilesIn(uploads[2])) = 3
    /\ Cardinality({slot \in ModelSlots : Populated(newObjectAttributes, slot)}) = 1
    /\ alerts = <<IncompleteModelSetMsg>>

\* C20: once the metadata fetch has finished, whatever its outcome, loading
\* is false, and errors is true exactly when the fetch did not succeed.
C20_FetchEndsLoading ==
    metadataFetch = "settled"
    => /\ ~loading
       /\ errors <=> (shapeOptions # ServerShapes)

====
